---- MODULE Spec2Model ----
(***************************************************************************)
(* A model of the ts-result library: the Ok and Err classes, the Result    *)
(* namespace's run and runAsync adapters, and a caller that constructs     *)
(* instances and invokes the methods on them.                              *)
(*                                                                         *)
(* Instances live in a heap (a sequence; an instance's identity is its     *)
(* index), so "the same instance" and "a new instance" are distinguishable.*)
(* Every method is an operator from (heap, receiver, argument) to an       *)
(* outcome [heap, ret, calls]: the heap after the call, what the call      *)
(* returned or threw, and the callback invocations it made, in order.      *)
(***************************************************************************)
EXTENDS Integers, Sequences, FiniteSets, TLC

\* ------------------------------------------------------------------ bounds
MaxVal == 1
MaxHeap == 2
MaxChain == 2

\* ------------------------------------------------------------------ values
\* JavaScript values that the model passes around: numbers, Error objects
\* (identified by their message), booleans and undefined.
Num(n) == [type |-> "number", num |-> n, message |-> ""]
Error(msg) == [type |-> "Error", num |-> 0, message |-> msg]
Bool(b) == [type |-> "boolean", num |-> IF b THEN 1 ELSE 0, message |-> ""]
Undefined == [type |-> "undefined", num |-> 0, message |-> ""]
PromiseObject == [type |-> "Promise", num |-> 0, message |-> ""]

Nums == {Num(n) : n \in 0..MaxVal}
\* What a caller's computation throws or rejects with.
Failure == Error("Failure")

\* ------------------------------------------------------------------ instances
\* new Ok(value): the private field #value.   new Err(error): #error.
Ok(value) == [tag |-> "Ok", val |-> value]
Err(error) == [tag |-> "Err", val |-> error]

\* What a call produced: a Result instance (by identity), a plain value, or
\* an exception that left the call.
RetRef(r) == [kind |-> "ref", ref |-> r, val |-> Undefined]
RetVal(v) == [kind |-> "val", ref |-> 0, val |-> v]
Throw(x) == [kind |-> "throw", ref |-> 0, val |-> x]

\* An argument of a call: a callback (by name, with the instance its closure
\* captured), a Result instance, or a plain value.
Fn(name) == [fn |-> name, ref |-> 0, val |-> Undefined]
FnRef(name, r) == [fn |-> name, ref |-> r, val |-> Undefined]
ArgRef(r) == [fn |-> "", ref |-> r, val |-> Undefined]
ArgVal(v) == [fn |-> "", ref |-> 0, val |-> v]
NoArg == [fn |-> "", ref |-> 0, val |-> Undefined]

Outcome(h, ret, calls) == [heap |-> h, ret |-> ret, calls |-> calls]
\* One invocation of a callback: the callback, its argument, what it returned
\* or threw.
Call(fn, v, ret) == [fn |-> fn, arg |-> v, ret |-> ret]

\* ------------------------------------------------------------------ callbacks
\* The caller's callbacks.  "succ" is (value) => value + 1 (wrapping inside
\* the bounded number range), "zero" is (_) => 0, "boom" throws.
Succ(v) == Num((v.num + 1) % (MaxVal + 1))
Boom == Error("boom")

\* (value: T) => U, for map and mapError.
ValueFns == {Fn("succ"), Fn("zero"), Fn("boom")}

CallValueFn(fn, v) ==
  CASE fn.fn = "succ" -> RetVal(Succ(v))
    [] fn.fn = "zero" -> RetVal(Num(0))
    [] OTHER -> Throw(Boom)

\* (value: T) => Result<U, E2>, for andThen: (v) => new Ok(v + 1),
\* (v) => new Err(v), (_) => r for an existing instance r, and one that throws.
ResultFns(h) ==
  {Fn("okSucc"), Fn("errOf"), Fn("boom")} \cup {FnRef("existing", r) : r \in DOMAIN h}

CallResultFn(h, fn, v) ==
  CASE fn.fn = "okSucc" -> [heap |-> Append(h, Ok(Succ(v))), ret |-> RetRef(Len(h) + 1)]
    [] fn.fn = "errOf" -> [heap |-> Append(h, Err(v)), ret |-> RetRef(Len(h) + 1)]
    [] fn.fn = "existing" -> [heap |-> h, ret |-> RetRef(fn.ref)]
    [] OTHER -> [heap |-> h, ret |-> Throw(Boom)]

\* ------------------------------------------------------------------ class Ok
\* A faulty OkAnd: returns this instead of the Result passed.
OkAndKeepsThis(h, self, res) == Outcome(h, RetRef(self), <<>>)

OkAnd(h, self, res) == Outcome(h, RetRef(res), <<>>)

\* A faulty OkAndThen: schedules fn for later and returns before fn has run.
OkAndThenDeferred(h, self, fn) == Outcome(h, RetRef(self), <<>>)

\* A faulty OkAndThen: calls fn and returns this instead of fn's Result.
OkAndThenKeepsThis(h, self, fn) ==
  LET r == CallResultFn(h, fn, h[self].val)
  IN Outcome(r.heap, IF r.ret.kind = "throw" THEN r.ret ELSE RetRef(self),
             <<Call(fn, h[self].val, r.ret)>>)

OkAndThen(h, self, fn) ==
  LET r == CallResultFn(h, fn, h[self].val)
  IN Outcome(r.heap, r.ret, <<Call(fn, h[self].val, r.ret)>>)

OkIsOk(h, self) == Outcome(h, RetVal(Bool(TRUE)), <<>>)

OkIsError(h, self) == Outcome(h, RetVal(Bool(FALSE)), <<>>)

\* A faulty OkMap: wraps the value itself, without applying fn.
OkMapSkipsFn(h, self, fn) ==
  Outcome(Append(h, Ok(h[self].val)), RetRef(Len(h) + 1), <<>>)

\* A faulty OkMap: catches what fn throws and returns it wrapped in an Err,
\* as run does.
OkMapCatches(h, self, fn) ==
  LET r == CallValueFn(fn, h[self].val)
  IN IF r.kind = "throw"
       THEN Outcome(Append(h, Err(r.val)), RetRef(Len(h) + 1), <<Call(fn, h[self].val, r)>>)
       ELSE Outcome(Append(h, Ok(r.val)), RetRef(Len(h) + 1), <<Call(fn, h[self].val, r)>>)

\* A faulty OkMap: stores fn's result in this and returns this.
OkMapInPlace(h, self, fn) ==
  LET r == CallValueFn(fn, h[self].val)
  IN IF r.kind = "throw"
       THEN Outcome(h, r, <<Call(fn, h[self].val, r)>>)
       ELSE Outcome([h EXCEPT ![self] = Ok(r.val)], RetRef(self), <<Call(fn, h[self].val, r)>>)

OkMap(h, self, fn) ==
  LET r == CallValueFn(fn, h[self].val)
  IN IF r.kind = "throw"
       THEN Outcome(h, r, <<Call(fn, h[self].val, r)>>)
       ELSE Outcome(Append(h, Ok(r.val)), RetRef(Len(h) + 1), <<Call(fn, h[self].val, r)>>)

OkMapError(h, self, fn) == Outcome(h, RetRef(self), <<>>)

OkUnwrap(h, self) == Outcome(h, RetVal(h[self].val), <<>>)

OkUnwrapError(h, self) ==
  Outcome(h, Throw(Error("Called unwrapError on an Ok value")), <<>>)

\* A faulty OkUnwrapOr: returns the default.
OkUnwrapOrDefault(h, self, d) == Outcome(h, RetVal(d), <<>>)

OkUnwrapOr(h, self, d) == Outcome(h, RetVal(h[self].val), <<>>)

\* ------------------------------------------------------------------ class Err
ErrAnd(h, self, res) == Outcome(h, RetRef(self), <<>>)

\* A faulty ErrAndThen: applies fn to the error, as Ok.andThen does to the value.
ErrAndThenApplies(h, self, fn) ==
  LET r == CallResultFn(h, fn, h[self].val)
  IN Outcome(r.heap, r.ret, <<Call(fn, h[self].val, r.ret)>>)

ErrAndThen(h, self, fn) == Outcome(h, RetRef(self), <<>>)

ErrIsOk(h, self) == Outcome(h, RetVal(Bool(FALSE)), <<>>)

ErrIsError(h, self) == Outcome(h, RetVal(Bool(TRUE)), <<>>)

ErrMap(h, self, fn) == Outcome(h, RetRef(self), <<>>)

\* A faulty ErrMapError: wraps the error itself, without applying fn.
ErrMapErrorSkipsFn(h, self, fn) ==
  Outcome(Append(h, Err(h[self].val)), RetRef(Len(h) + 1), <<>>)

ErrMapError(h, self, fn) ==
  LET r == CallValueFn(fn, h[self].val)
  IN IF r.kind = "throw"
       THEN Outcome(h, r, <<Call(fn, h[self].val, r)>>)
       ELSE Outcome(Append(h, Err(r.val)), RetRef(Len(h) + 1), <<Call(fn, h[self].val, r)>>)

\* A faulty ErrUnwrap: returns the error instead of throwing.
ErrUnwrapReturns(h, self) == Outcome(h, RetVal(h[self].val), <<>>)

ErrUnwrap(h, self) ==
  Outcome(h, Throw(Error("Called unwrap on an Err value")), <<>>)

ErrUnwrapError(h, self) == Outcome(h, RetVal(h[self].val), <<>>)

ErrUnwrapOr(h, self, d) == Outcome(h, RetVal(d), <<>>)

\* ------------------------------------------------------------------ interface Result
\* A call through the interface dispatches on the receiver's class.
Invoke(h, self, op, arg) ==
  IF h[self].tag = "Ok"
    THEN CASE op = "and" -> OkAnd(h, self, arg.ref)
           [] op = "andThen" -> OkAndThen(h, self, arg)
           [] op = "isOk" -> OkIsOk(h, self)
           [] op = "isError" -> OkIsError(h, self)
           [] op = "map" -> OkMap(h, self, arg)
           [] op = "mapError" -> OkMapError(h, self, arg)
           [] op = "unwrap" -> OkUnwrap(h, self)
           [] op = "unwrapError" -> OkUnwrapError(h, self)
           [] OTHER -> OkUnwrapOr(h, self, arg.val)
    ELSE CASE op = "and" -> ErrAnd(h, self, arg.ref)
           [] op = "andThen" -> ErrAndThen(h, self, arg)
           [] op = "isOk" -> ErrIsOk(h, self)
           [] op = "isError" -> ErrIsError(h, self)
           [] op = "map" -> ErrMap(h, self, arg)
           [] op = "mapError" -> ErrMapError(h, self, arg)
           [] op = "unwrap" -> ErrUnwrap(h, self)
           [] op = "unwrapError" -> ErrUnwrapError(h, self)
           [] OTHER -> ErrUnwrapOr(h, self, arg.val)

\* ------------------------------------------------------------------ namespace Result
\* The caller's zero-argument computations for run: () => v and
\* () => { throw x }.
Thunks ==
  {[fn |-> "returns", ref |-> 0, val |-> v] : v \in Nums}
    \cup {[fn |-> "throws", ref |-> 0, val |-> Failure]}

CallThunk(fn) == IF fn.fn = "returns" THEN RetVal(fn.val) ELSE Throw(fn.val)

\* A faulty Run: no catch clause, so what fn throws leaves run.
RunUncaught(h, fn) ==
  LET r == CallThunk(fn)
  IN IF r.kind = "throw"
       THEN Outcome(h, r, <<Call(fn, Undefined, r)>>)
       ELSE Outcome(Append(h, Ok(r.val)), RetRef(Len(h) + 1), <<Call(fn, Undefined, r)>>)

\* try { return new Ok(fn()); } catch (error) { return new Err(error); }
Run(h, fn) ==
  LET r == CallThunk(fn)
  IN IF r.kind = "throw"
       THEN Outcome(Append(h, Err(r.val)), RetRef(Len(h) + 1), <<Call(fn, Undefined, r)>>)
       ELSE Outcome(Append(h, Ok(r.val)), RetRef(Len(h) + 1), <<Call(fn, Undefined, r)>>)

\* The caller's zero-argument asynchronous computations for runAsync, each a
\* function of type () => Promise<T>: async () => v, async () => { throw x },
\* one that returns a promise the environment settles later, and a function
\* that is not async and throws before it returns a promise.
AsyncThunks ==
  {[fn |-> "asyncReturns", ref |-> 0, val |-> v] : v \in Nums}
    \cup {[fn |-> k, ref |-> 0, val |-> Failure] : k \in {"asyncThrows", "throws"}}
    \cup {[fn |-> "later", ref |-> 0, val |-> Undefined]}

\* A promise: pending, fulfilled with a Result instance or a value, or rejected.
Pending == [state |-> "pending", ref |-> 0, val |-> Undefined]
Fulfilled(v) == [state |-> "fulfilled", ref |-> 0, val |-> v]
FulfilledRef(r) == [state |-> "fulfilled", ref |-> r, val |-> Undefined]
Rejected(x) == [state |-> "rejected", ref |-> 0, val |-> x]
NoPromise == [state |-> "none", ref |-> 0, val |-> Undefined]

\* fn(): the promise it returns, or the exception it throws.
CallAsyncThunk(fn) ==
  CASE fn.fn = "asyncReturns" -> [threw |-> FALSE, promise |-> Fulfilled(fn.val)]
    [] fn.fn = "asyncThrows" -> [threw |-> FALSE, promise |-> Rejected(fn.val)]
    [] fn.fn = "later" -> [threw |-> FALSE, promise |-> Pending]
    [] OTHER -> [threw |-> TRUE, promise |-> Rejected(fn.val)]

\* One invocation of runAsync: the promise fn returned, the promises derived
\* from it by .then and .catch, and the promise runAsync itself returned.
Task(fn, calls, fnP, thenP, catchP, out) ==
  [fn |-> fn, calls |-> calls, fnP |-> fnP, thenP |-> thenP, catchP |-> catchP, out |-> out]

NoTask == Task(NoArg, <<>>, NoPromise, NoPromise, NoPromise, NoPromise)

\* The body of the async function runAsync up to its return statement: it
\* calls fn and chains .then and .catch on the promise fn returned.  An
\* exception thrown in the body of an async function rejects its promise.
RunAsyncBody(fn) ==
  LET c == CallAsyncThunk(fn)
  IN IF c.threw
       THEN Task(fn, <<Call(fn, Undefined, Throw(c.promise.val))>>,
                 NoPromise, NoPromise, NoPromise, c.promise)
       ELSE Task(fn, <<Call(fn, Undefined, RetVal(PromiseObject))>>,
                 c.promise, Pending, Pending, Pending)

\* .then((value) => new Ok(value)): runs once the promise fn returned has
\* settled; a rejection passes through.
ThenReaction(h, t) ==
  IF t.fnP.state = "fulfilled"
    THEN [heap |-> Append(h, Ok(t.fnP.val)),
          task |-> [t EXCEPT !.thenP = FulfilledRef(Len(h) + 1)]]
    ELSE [heap |-> h, task |-> [t EXCEPT !.thenP = t.fnP]]

\* .catch((error) => new Err(error)): runs once the .then promise has
\* settled; a fulfilment passes through.
CatchReaction(h, t) ==
  IF t.thenP.state = "rejected"
    THEN [heap |-> Append(h, Err(t.thenP.val)),
          task |-> [t EXCEPT !.catchP = FulfilledRef(Len(h) + 1)]]
    ELSE [heap |-> h, task |-> [t EXCEPT !.catchP = t.thenP]]

\* return <promise>: the promise of the async function follows the returned one.
ReturnReaction(t) == [t EXCEPT !.out = t.catchP]

\* ------------------------------------------------------------------ state
VARIABLES
  heap,   \* the instances constructed so far
  born,   \* for each instance, the class and value it was constructed with
  chain,  \* the caller's current chain of calls
  last,   \* the most recent call: operation, receiver, argument, outcome
  task    \* the runAsync invocation in flight

vars == <<heap, born, chain, last, task>>

\* A call: its operation, receiver and argument, the number of instances that
\* existed when it was made, what it returned or threw, and the callback
\* invocations it made.
Rec(op, recv, arg, pre, ret, calls) ==
  [op |-> op, recv |-> recv, arg |-> arg, pre |-> pre, ret |-> ret, calls |-> calls]

NoCall == Rec("none", 0, NoArg, 0, RetVal(Undefined), <<>>)

\* A chain, as in r.map(f).andThen(g).unwrap(): the instance it began with,
\* the instance the next call is made on, the number of chaining calls so
\* far, the methods they named, the number of callback invocations they
\* made, the callbacks that have run to completion, in the order they did,
\* and, while every call was and(...), the Results passed.
NoChain ==
  [start |-> 0, cur |-> 0, n |-> 0, ops |-> {}, invoked |-> 0, called |-> <<>>,
   ands |-> <<>>]

\* The instances constructed by a step that took the heap from h to h2.
Constructed(h, h2) == SubSeq(h2, Len(h) + 1, Len(h2))

Init ==
  /\ heap = <<>>
  /\ born = <<>>
  /\ chain = NoChain
  /\ last = NoCall
  /\ task = NoTask

\* ------------------------------------------------------------------ the caller
\* new Ok(value) / new Err(error)
New(tag, v) ==
  /\ Len(heap) < MaxHeap
  /\ heap' = Append(heap, IF tag = "Ok" THEN Ok(v) ELSE Err(v))
  /\ born' = Append(born, [tag |-> tag, val |-> v])
  /\ UNCHANGED <<chain, last, task>>

\* The caller turns to an instance it holds and starts calling methods on it.
Begin(r) ==
  /\ r \in DOMAIN heap
  /\ chain' = [NoChain EXCEPT !.start = r, !.cur = r]
  /\ last' = NoCall
  /\ UNCHANGED <<heap, born, task>>

\* A chaining call on the chain's current instance.  A call that returns a
\* Result moves the chain on to it; one whose callback throws leaves the
\* caller on the receiver.
Chaining(op, arg) ==
  /\ chain.start # 0
  /\ chain.n < MaxChain
  /\ LET o == Invoke(heap, chain.cur, op, arg)
     IN /\ Len(o.heap) <= MaxHeap
        /\ heap' = o.heap
        /\ born' = born \o Constructed(heap, o.heap)
        /\ last' = Rec(op, chain.cur, arg, Len(heap), o.ret, o.calls)
        /\ chain' = [chain EXCEPT
                       !.cur = IF o.ret.kind = "ref" THEN o.ret.ref ELSE @,
                       !.n = @ + 1,
                       !.ops = @ \cup {op},
                       !.invoked = @ + Len(o.calls),
                       !.called = @ \o [i \in DOMAIN o.calls |-> o.calls[i].fn],
                       !.ands = IF op = "and" /\ chain.ops \subseteq {"and"}
                                  THEN Append(@, arg.ref) ELSE <<>>]
  /\ UNCHANGED task

\* An inspecting call on the chain's current instance.  It ends the chain:
\* what it returns is no Result to call a method on.
Inspecting(op, arg) ==
  /\ chain.start # 0
  /\ LET o == Invoke(heap, chain.cur, op, arg)
     IN /\ heap' = o.heap
        /\ born' = born \o Constructed(heap, o.heap)
        /\ last' = Rec(op, chain.cur, arg, Len(heap), o.ret, o.calls)
  /\ chain' = NoChain
  /\ UNCHANGED task

And == \E r \in DOMAIN heap : Chaining("and", ArgRef(r))
AndThen == \E fn \in ResultFns(heap) : Chaining("andThen", fn)
Map == \E fn \in ValueFns : Chaining("map", fn)
MapError == \E fn \in ValueFns : Chaining("mapError", fn)
IsOk == Inspecting("isOk", NoArg)
IsError == Inspecting("isError", NoArg)
Unwrap == Inspecting("unwrap", NoArg)
UnwrapError == Inspecting("unwrapError", NoArg)
UnwrapOr == \E d \in Nums : Inspecting("unwrapOr", ArgVal(d))

\* Result.run(fn)
RunCall ==
  \E fn \in Thunks :
    LET o == Run(heap, fn)
    IN /\ Len(o.heap) <= MaxHeap
       /\ heap' = o.heap
       /\ born' = born \o Constructed(heap, o.heap)
       /\ last' = Rec("run", 0, fn, Len(heap), o.ret, o.calls)
       /\ UNCHANGED <<chain, task>>

\* Result.runAsync(fn): the call itself, which runs the body to its return.
RunAsyncCall ==
  \E fn \in AsyncThunks :
    /\ task = NoTask
    /\ task' = RunAsyncBody(fn)
    /\ UNCHANGED <<heap, born, chain, last>>

\* The environment settles the promise fn returned.
SettleFn ==
  /\ task.fnP.state = "pending"
  /\ \E p \in {Fulfilled(v) : v \in Nums} \cup {Rejected(Failure)} :
       task' = [task EXCEPT !.fnP = p]
  /\ UNCHANGED <<heap, born, chain, last>>

\* The microtask of the .then callback.
RunThen ==
  /\ task.fnP.state \in {"fulfilled", "rejected"}
  /\ task.thenP.state = "pending"
  /\ LET o == ThenReaction(heap, task)
     IN /\ Len(o.heap) <= MaxHeap
        /\ heap' = o.heap
        /\ born' = born \o Constructed(heap, o.heap)
        /\ task' = o.task
  /\ UNCHANGED <<chain, last>>

\* The microtask of the .catch callback.
RunCatch ==
  /\ task.thenP.state \in {"fulfilled", "rejected"}
  /\ task.catchP.state = "pending"
  /\ LET o == CatchReaction(heap, task)
     IN /\ Len(o.heap) <= MaxHeap
        /\ heap' = o.heap
        /\ born' = born \o Constructed(heap, o.heap)
        /\ task' = o.task
  /\ UNCHANGED <<chain, last>>

\* The promise runAsync returned settles as the promise it returned did.
RunReturn ==
  /\ task.catchP.state \in {"fulfilled", "rejected"}
  /\ task.out.state = "pending"
  /\ task' = ReturnReaction(task)
  /\ UNCHANGED <<heap, born, chain, last>>

\* The caller awaits the promise runAsync returned: the await yields the
\* Result, or throws the rejection.
Await ==
  /\ task.out.state \in {"fulfilled", "rejected"}
  /\ last' = Rec("runAsync", 0, task.fn, Len(heap),
                 IF task.out.state = "fulfilled" THEN RetRef(task.out.ref)
                 ELSE Throw(task.out.val),
                 task.calls)
  /\ task' = NoTask
  /\ UNCHANGED <<heap, born, chain>>

Next ==
  \/ \E tag \in {"Ok", "Err"}, v \in Nums : New(tag, v)
  \/ \E r \in DOMAIN heap : Begin(r)
  \/ And
  \/ AndThen
  \/ Map
  \/ MapError
  \/ IsOk
  \/ IsError
  \/ Unwrap
  \/ UnwrapError
  \/ UnwrapOr
  \/ RunCall

Spec == Init /\ [][Next]_vars

\* The asynchronous adapter on its own: it shares nothing with the chains
\* but the heap its Results are constructed in.
AsyncNext ==
  \/ RunAsyncCall
  \/ SettleFn
  \/ RunThen
  \/ RunCatch
  \/ RunReturn
  \/ Await

AsyncSpec == Init /\ [][AsyncNext]_vars

\* ------------------------------------------------------------------ claims
\* The answers an instance gives when asked, through the interface.
IsOkOf(r) == Invoke(heap, r, "isOk", NoArg).ret
IsErrorOf(r) == Invoke(heap, r, "isError", NoArg).ret
UnwrapOf(r) == Invoke(heap, r, "unwrap", NoArg).ret
UnwrapErrorOf(r) == Invoke(heap, r, "unwrapError", NoArg).ret

\* C1: runAsync(fn) invokes fn exactly once, and the promise it returns never
\* rejects: once settled it is fulfilled, with an Ok wrapping the value when
\* fn's promise fulfilled, and with an Err wrapping the error when fn's
\* promise rejected or fn threw.
C1_RunAsyncNeverRejects ==
  task.out.state \in {"fulfilled", "rejected"} =>
    /\ Len(task.calls) = 1
    /\ task.out.state = "fulfilled"
    /\ task.out.ref \in DOMAIN heap
    /\ task.fnP.state = "fulfilled" =>
         /\ IsOkOf(task.out.ref) = RetVal(Bool(TRUE))
         /\ UnwrapOf(task.out.ref) = RetVal(task.fnP.val)
    /\ task.fnP.state = "rejected" =>
         /\ IsErrorOf(task.out.ref) = RetVal(Bool(TRUE))
         /\ UnwrapErrorOf(task.out.ref) = RetVal(task.fnP.val)
    /\ task.calls[1].ret.kind = "throw" =>
         /\ IsErrorOf(task.out.ref) = RetVal(Bool(TRUE))
         /\ UnwrapErrorOf(task.out.ref) = RetVal(task.calls[1].ret.val)

\* C2: run(fn) invokes fn exactly once and never throws: when fn returns v
\* the result is an Ok that unwraps to v, and when fn throws x the result is
\* an Err whose error is x.
C2_RunWrapsOutcome ==
  last.op = "run" =>
    /\ Len(last.calls) = 1
    /\ last.calls[1].fn = last.arg
    /\ last.ret.kind = "ref"
    /\ last.ret.ref \in DOMAIN heap
    /\ last.calls[1].ret.kind = "val" =>
         /\ IsOkOf(last.ret.ref) = RetVal(Bool(TRUE))
         /\ UnwrapOf(last.ret.ref) = RetVal(last.calls[1].ret.val)
    /\ last.calls[1].ret.kind = "throw" =>
         /\ IsErrorOf(last.ret.ref) = RetVal(Bool(TRUE))
         /\ UnwrapErrorOf(last.ret.ref) = RetVal(last.calls[1].ret.val)

\* run caught what fn threw and returned it wrapped in an Err.
C2_Witness ==
  /\ last.op = "run"
  /\ last.arg.fn = "throws"
  /\ last.ret.kind = "ref"
  /\ heap[last.ret.ref] = Err(Failure)

C5_MisuseThrowsFixedError ==
  /\ (last.op = "unwrapError" /\ born[last.recv].tag = "Ok") =>
       /\ last.ret.kind = "throw"
       /\ last.ret.val.type = "Error"
       /\ last.ret.val.message = "Called unwrapError on an Ok value"
       /\ heap[last.recv] = Ok(born[last.recv].val)
  /\ (last.op = "unwrap" /\ born[last.recv].tag = "Err") =>
       /\ last.ret.kind = "throw"
       /\ last.ret.val.type = "Error"
       /\ last.ret.val.message = "Called unwrap on an Err value"
       /\ heap[last.recv] = Err(born[last.recv].val)

\* unwrap() was called on an Err that run made of a thrown Error.
C5_Witness ==
  /\ last.op = "unwrap"
  /\ born[last.recv] = [tag |-> "Err", val |-> Failure]

\* C6: Ok(v).andThen(f) invokes f exactly once, with v, and returns exactly
\* the Result that f returned: the same instance, Ok or Err.
C6_OkAndThenReturnsFnResult ==
  (last.op = "andThen" /\ born[last.recv].tag = "Ok") =>
    /\ Len(last.calls) = 1
    /\ last.calls[1].fn = last.arg
    /\ last.calls[1].arg = born[last.recv].val
    /\ last.calls[1].ret.kind = "ref" => last.ret = last.calls[1].ret

\* andThen on an Ok with a callback that constructed and returned an Err.
C6_Witness ==
  /\ last.op = "andThen"
  /\ born[last.recv].tag = "Ok"
  /\ last.arg.fn = "errOf"
  /\ last.ret.kind = "ref"
  /\ born[last.ret.ref].tag = "Err"

\* C7: Ok(v).map(f) invokes f exactly once, with v; when f returns, the
\* result is a new Ok that unwraps to what f returned, and the receiver
\* still unwraps to v.
C7_OkMapWrapsFnResult ==
  (last.op = "map" /\ born[last.recv].tag = "Ok") =>
    /\ Len(last.calls) = 1
    /\ last.calls[1].fn = last.arg
    /\ last.calls[1].arg = born[last.recv].val
    /\ UnwrapOf(last.recv) = RetVal(born[last.recv].val)
    /\ last.calls[1].ret.kind = "val" =>
         /\ last.ret.kind = "ref"
         /\ last.ret.ref \in DOMAIN heap
         /\ last.ret.ref > last.pre
         /\ IsOkOf(last.ret.ref) = RetVal(Bool(TRUE))
         /\ UnwrapOf(last.ret.ref) = RetVal(last.calls[1].ret.val)

\* map on an Ok with a callback whose result differs from the payload.
C7_Witness ==
  /\ last.op = "map"
  /\ born[last.recv].tag = "Ok"
  /\ last.ret.kind = "ref"
  /\ born[last.ret.ref].val # born[last.recv].val

\* C8: Err(e).mapError(f) invokes f exactly once, with e, and returns a new
\* Err whose error is what f returned, the receiver's error still e;
\* Ok(v).mapError(f) never invokes f and returns the receiver, which unwraps
\* to v.
C8_MapErrorOnlyErrorSide ==
  /\ (last.op = "mapError" /\ born[last.recv].tag = "Err") =>
       /\ Len(last.calls) = 1
       /\ last.calls[1].fn = last.arg
       /\ last.calls[1].arg = born[last.recv].val
       /\ UnwrapErrorOf(last.recv) = RetVal(born[last.recv].val)
       /\ last.calls[1].ret.kind = "val" =>
            /\ last.ret.kind = "ref"
            /\ last.ret.ref \in DOMAIN heap
            /\ last.ret.ref > last.pre
            /\ IsErrorOf(last.ret.ref) = RetVal(Bool(TRUE))
            /\ UnwrapErrorOf(last.ret.ref) = RetVal(last.calls[1].ret.val)
  /\ (last.op = "mapError" /\ born[last.recv].tag = "Ok") =>
       /\ last.calls = <<>>
       /\ last.ret = RetRef(last.recv)
       /\ UnwrapOf(last.recv) = RetVal(born[last.recv].val)

\* mapError on an Err with a callback whose result differs from the error.
C8_Witness ==
  /\ last.op = "mapError"
  /\ born[last.recv].tag = "Err"
  /\ last.ret.kind = "ref"
  /\ born[last.ret.ref].val # born[last.recv].val

C10_UnwrapOrNeverThrows ==
  last.op = "unwrapOr" =>
    /\ last.ret.kind = "val"
    /\ born[last.recv].tag = "Ok" => last.ret = RetVal(born[last.recv].val)
    /\ born[last.recv].tag = "Err" => last.ret = RetVal(last.arg.val)

\* unwrapOr on an Ok with a default that differs from the value.
C10_Witness ==
  /\ last.op = "unwrapOr"
  /\ born[last.recv].tag = "Ok"
  /\ last.arg.val # born[last.recv].val

\* C11: when the callback passed to Ok.andThen, Ok.map or Err.mapError
\* throws, that exception leaves the call: the call returns no Result, the
\* caller stays on the receiver, and the receiver is as it was constructed.
C11_CallbackExceptionPropagates ==
  (/\ last.op \in {"andThen", "map", "mapError"}
   /\ last.calls # <<>>
   /\ last.calls[Len(last.calls)].ret.kind = "throw") =>
    /\ Len(last.calls) = 1
    /\ last.ret.kind = "throw"
    /\ last.ret.val = last.calls[1].ret.val
    /\ chain.cur = last.recv
    /\ heap[last.recv] = born[last.recv]
    /\ born[last.recv].tag = (IF last.op = "mapError" THEN "Err" ELSE "Ok")

\* map on an Ok whose callback threw.
C11_Witness ==
  /\ last.op = "map"
  /\ born[last.recv].tag = "Ok"
  /\ last.arg.fn = "boom"
  /\ last.ret = Throw(Boom)

\* C12: in a chain of andThen, map and mapError calls, a callback that a
\* call invokes has run to completion when that call returns, so the
\* callbacks complete in the order of the caller's calls: each call of
\* Ok.andThen, Ok.map or Err.mapError adds exactly its own callback to the
\* end of the completed ones, and the other calls add none.
C12_CallbacksRunInCallOrder ==
  [][(/\ chain.start # 0
      /\ chain'.start = chain.start
      /\ chain'.n = chain.n + 1
      /\ last'.op \in {"andThen", "map", "mapError"}) =>
       LET applies == born[chain.cur].tag = (IF last'.op = "mapError" THEN "Err" ELSE "Ok")
       IN /\ last'.recv = chain.cur
          /\ chain'.called = chain.called \o (IF applies THEN <<last'.arg>> ELSE <<>>)
          /\ applies =>
               /\ Len(last'.calls) = 1
               /\ last'.calls[1].fn = last'.arg
               /\ last'.calls[1].ret.kind \in {"val", "ref", "throw"}
               /\ last'.ret.kind = "throw" <=> last'.calls[1].ret.kind = "throw"
          /\ ~applies => last'.calls = <<>>]_vars

\* Ok.map(succ).andThen(f): two callbacks completed, in the order of the calls.
C12_Witness ==
  /\ chain.n = 2
  /\ chain.ops = {"map", "andThen"}
  /\ Len(chain.called) = 2
  /\ chain.called[1].fn = "succ"
  /\ chain.called[2].fn = "existing"

====
